---------------------------- MODULE Spec2Model ----------------------------
(***************************************************************************)
(* Snowbridge v2 message translation:                                      *)
(*   - the inbound queue pallet (pallets/inbound-queue-v2/src/lib.rs):     *)
(*     submit and set_operating_mode over the Nonce map, the operating     *)
(*     mode, the deposited events and the XCM sender;                      *)
(*   - the outbound XcmConverter (primitives/router-v2/src/outbound);      *)
(*   - the outbound EthereumBlobExporter (same file): validate, deliver;   *)
(*   - the rewards pallet (pallets/rewards/src/lib.rs): claim and the      *)
(*     deposit of the reward ledger over the RewardsMapping.               *)
(***************************************************************************)
EXTENDS Integers, Sequences, FiniteSets, TLC

VARIABLES
    Nonce,          \* StorageMap u64 -> bool: a function whose DOMAIN is the stored keys
    OperatingMode,  \* StorageValue BasicOperatingMode
    events,         \* events deposited by the pallet, oldest first
    sent,           \* what T::XcmSender accepted, oldest first: [nonce, message_id]
    last,           \* the call dispatched last: its arguments, what it reached, its result
    send_failed,    \* nonces of the submits that send_xcm refused so far
    xcm,            \* outbound: the program handed to XcmConverter, a sequence of instructions
    out,            \* outbound: what XcmConverter::convert returns for xcm
    validated,      \* exporter: the validate called last: its arguments and what it returned
    tickets,        \* exporter: the tickets validate has returned
    queue,          \* exporter: the tickets handed to OutboundQueue::deliver, oldest first,
                    \*           each with whether the Queue accepted it
    delivered,      \* exporter: the deliver called last: its ticket and what it returned
    RewardsMapping, \* rewards: StorageMap AccountId -> Balance, ValueQuery
    reward_events,  \* rewards: events deposited by the rewards pallet, oldest first
    reward_call     \* rewards: the call made last: its arguments, what it reached, its result

inbound == <<Nonce, OperatingMode, events, sent, last, send_failed>>
outbound == <<xcm, out>>
exporter == <<validated, tickets, queue, delivered>>
rewards == <<RewardsMapping, reward_events, reward_call>>
vars == <<inbound, outbound, exporter, rewards>>

-----------------------------------------------------------------------------
(* Bounds of the model *)

\* nonces submitted are 0..MaxNonce
MaxNonce == 1
\* at most MaxEvents events are deposited in a run
MaxEvents == 2
\* an outbound program holds at most MaxLen instructions
MaxLen == 7
\* an opening instruction carries at most MaxAssets assets
MaxAssets == 2
\* at most MaxDeliveries tickets are handed to the Queue in a run
MaxDeliveries == 2
\* the largest value of the balance type of the rewards
MaxBalance == 2
\* at most MaxRewardEvents events are deposited by the rewards pallet in a run
MaxRewardEvents == 2

Nonces == 0..MaxNonce

-----------------------------------------------------------------------------
(* Inbound queue: types *)

BasicOperatingMode == {"Normal", "Halted"}

\* Config::GatewayAddress, and some other address
GatewayAddress == "gateway"
Addresses == {GatewayAddress, "other"}

\* RawOrigin as ensure_signed / ensure_root see it
Origins == {"Signed", "Root"}

\* message ids the XCM sender may return
MessageIds == {"T", "U"}

\* snowbridge_core::inbound::VerificationError, by kind
VerificationError == {"InvalidProof"}

\* xcm SendError
XcmpSendError == {"NotApplicable", "Unroutable", "Transport", "DestinationUnsupported",
                  "ExceedsMaxMessageSize", "MissingArgument", "Fees"}

\* pallet SendError
SendError == {"NotApplicable", "NotRoutable", "Transport", "DestinationUnsupported",
              "ExceedsMaxMessageSize", "MissingArgument", "Fees"}

\* DispatchResult
Ok == <<"Ok">>
Err(e) == <<e>>
Verification(e) == <<"Verification", e>>
Send(e) == <<"Send", e>>
BadOrigin == <<"BadOrigin">>

\* Payload bytes of an envelope, by what the three decoding steps make of them
Payloads == {"xcm", "not_a_message", "not_an_xcm", "unsupported_version"}

\* An event log is either bytes that are no envelope, or an encoded envelope
Garbage == [wellformed |-> FALSE, gateway |-> "other", nonce |-> 0, payload |-> "not_a_message"]
EventLogs ==
    {Garbage} \cup [wellformed : {TRUE}, gateway : Addresses, nonce : Nonces, payload : Payloads]

\* proof of a message: valid, or failing verification with some kind
Proofs == {"valid"} \cup VerificationError

Messages == [event_log : EventLogs, proof : Proofs]

\* what send_xcm can return: Ok((message_id, _)) or Err(XcmpSendError)
TransportOutcomes == [ok : {TRUE}, v : MessageIds] \cup [ok : {FALSE}, v : XcmpSendError]

NotCalled == [ok |-> FALSE, v |-> "NotCalled"]

MessageReceived(n, id) == [event |-> "MessageReceived", nonce |-> n, message_id |-> id]
OperatingModeChanged(m) == [event |-> "OperatingModeChanged", nonce |-> 0, message_id |-> m]

-----------------------------------------------------------------------------
(* Inbound queue: helpers of submit *)

\* every transport error mapped to Send(Transport)
SendErrorFrom_AllTransport(e) == Send("Transport")

\* impl From<XcmpSendError> for Error<T>
SendErrorFrom(e) ==
    CASE e = "NotApplicable" -> Send("NotApplicable")
      [] e = "Unroutable" -> Send("NotRoutable")
      [] e = "Transport" -> Send("Transport")
      [] e = "DestinationUnsupported" -> Send("DestinationUnsupported")
      [] e = "ExceedsMaxMessageSize" -> Send("ExceedsMaxMessageSize")
      [] e = "MissingArgument" -> Send("MissingArgument")
      [] e = "Fees" -> Send("Fees")

\* is_halted, never halting
is_halted_Never(mode) == FALSE

\* BasicOperatingMode::is_halted
is_halted(mode) == mode = "Halted"

\* T::Verifier::verify(&message.event_log, &message.proof)
Verifier_verify(message) ==
    IF message.proof = "valid" THEN Ok ELSE Verification(message.proof)

\* Envelope::try_from(&message.event_log)
Envelope_try_from(event_log) ==
    IF event_log.wellformed
    THEN [ok |-> TRUE, gateway |-> event_log.gateway, nonce |-> event_log.nonce,
          payload |-> event_log.payload]
    ELSE [ok |-> FALSE, gateway |-> "other", nonce |-> 0, payload |-> "not_a_message"]

\* MessageV2::decode_all(&mut envelope.payload.as_ref())
MessageV2_decode_all(payload) == payload # "not_a_message"

\* VersionedXcm::decode_with_depth_limit(MAX_XCM_DECODE_DEPTH, &mut message.xcm.as_ref())
VersionedXcm_decode(payload) == payload # "not_an_xcm"

\* versioned_xcm.try_into()
Xcm_try_into(payload) == payload # "unsupported_version"

\* contains_key, finding no key
contains_key_Never(map, n) == FALSE

\* contains_key, as a check against the greatest stored key
contains_key_Monotonic(map, n) == \E k \in DOMAIN map : n <= k

\* <Nonce<T>>::contains_key(nonce)
contains_key(map, n) == n \in DOMAIN map

\* try_mutate, writing nothing
try_mutate_done_Noop(map, n) == map

\* try_mutate, keeping the mutated key alone
try_mutate_done_Overwrite(map, n) == [k \in {n} |-> TRUE]

\* <Nonce<T>>::try_mutate(nonce, |done| { *done = true; Ok(()) })
try_mutate_done(map, n) ==
    [k \in (DOMAIN map) \cup {n} |-> IF k = n THEN TRUE ELSE map[k]]

\* deposit_event, dropping the event
deposit_event_Drop(st, event) == st

\* Self::deposit_event(event)
deposit_event(st, event) == [st EXCEPT !.events = Append(@, event)]

\* send_xcm::<T::XcmSender>(dest, xcm) returning Ok((message_id, _)): the sender took the program
send_xcm_ok(st, nonce, message_id) ==
    [st EXCEPT !.sent = Append(@, [nonce |-> nonce, message_id |-> message_id])]

\* the storage a dispatchable reads and writes
Storage == [Nonce |-> Nonce, OperatingMode |-> OperatingMode, events |-> events, sent |-> sent]

\* a dispatchable's outcome: the result, the storage it leaves, the transport outcome it saw
Outcome(result, st, transport) == [result |-> result, st |-> st, transport |-> transport]

-----------------------------------------------------------------------------
(* Inbound queue: the dispatchables *)

\* submit, checking the nonce before the gateway
submit_NonceBeforeGateway(st, origin, message, t) ==
    LET envelope == Envelope_try_from(message.event_log)
        marked == [st EXCEPT !.Nonce = try_mutate_done(st.Nonce, envelope.nonce)]
        forwarded ==
            deposit_event(send_xcm_ok(marked, envelope.nonce, t.v),
                          MessageReceived(envelope.nonce, t.v))
    IN  IF origin # "Signed" THEN Outcome(BadOrigin, st, NotCalled)
        ELSE IF is_halted(st.OperatingMode) THEN Outcome(Err("Halted"), st, NotCalled)
        ELSE IF Verifier_verify(message) # Ok
            THEN Outcome(Verifier_verify(message), st, NotCalled)
        ELSE IF ~envelope.ok THEN Outcome(Err("InvalidEnvelope"), st, NotCalled)
        ELSE IF contains_key(st.Nonce, envelope.nonce)
            THEN Outcome(Err("InvalidNonce"), st, NotCalled)
        ELSE IF GatewayAddress # envelope.gateway
            THEN Outcome(Err("InvalidGateway"), st, NotCalled)
        ELSE IF ~MessageV2_decode_all(envelope.payload)
            THEN Outcome(Err("InvalidPayload"), st, NotCalled)
        ELSE IF ~VersionedXcm_decode(envelope.payload)
            THEN Outcome(Err("InvalidPayload"), st, NotCalled)
        ELSE IF ~Xcm_try_into(envelope.payload)
            THEN Outcome(Err("InvalidPayload"), st, NotCalled)
        ELSE IF ~t.ok THEN Outcome(SendErrorFrom(t.v), marked, t)
        ELSE Outcome(Ok, forwarded, t)

\* Pallet::submit, the body run on the storage st; t is what send_xcm returns if it is called
submit(st, origin, message, t) ==
    LET envelope == Envelope_try_from(message.event_log)
        marked == [st EXCEPT !.Nonce = try_mutate_done(st.Nonce, envelope.nonce)]
        forwarded ==
            deposit_event(send_xcm_ok(marked, envelope.nonce, t.v),
                          MessageReceived(envelope.nonce, t.v))
    IN  IF origin # "Signed" THEN Outcome(BadOrigin, st, NotCalled)
        ELSE IF is_halted(st.OperatingMode) THEN Outcome(Err("Halted"), st, NotCalled)
        ELSE IF Verifier_verify(message) # Ok
            THEN Outcome(Verifier_verify(message), st, NotCalled)
        ELSE IF ~envelope.ok THEN Outcome(Err("InvalidEnvelope"), st, NotCalled)
        ELSE IF GatewayAddress # envelope.gateway
            THEN Outcome(Err("InvalidGateway"), st, NotCalled)
        ELSE IF contains_key(st.Nonce, envelope.nonce)
            THEN Outcome(Err("InvalidNonce"), st, NotCalled)
        ELSE IF ~MessageV2_decode_all(envelope.payload)
            THEN Outcome(Err("InvalidPayload"), st, NotCalled)
        ELSE IF ~VersionedXcm_decode(envelope.payload)
            THEN Outcome(Err("InvalidPayload"), st, NotCalled)
        ELSE IF ~Xcm_try_into(envelope.payload)
            THEN Outcome(Err("InvalidPayload"), st, NotCalled)
        ELSE IF ~t.ok THEN Outcome(SendErrorFrom(t.v), marked, t)
        ELSE Outcome(Ok, forwarded, t)

\* Pallet::set_operating_mode, the body run on the storage st
set_operating_mode(st, origin, mode) ==
    IF origin # "Root" THEN Outcome(BadOrigin, st, NotCalled)
    ELSE Outcome(Ok,
                 deposit_event([st EXCEPT !.OperatingMode = mode], OperatingModeChanged(mode)),
                 NotCalled)

\* a storage layer that commits whatever the call wrote
with_storage_layer_NoRollback(st, res) == res.st

\* The storage layer every dispatchable runs in: the writes of a call that returns
\* an error are discarded, those of a call that returns Ok are committed.
with_storage_layer(st, res) ==
    IF res.result = Ok THEN res.st ELSE st

Commit(st) ==
    /\ Nonce' = st.Nonce
    /\ OperatingMode' = st.OperatingMode
    /\ events' = st.events
    /\ sent' = st.sent

\* whether submit, run on st with these arguments, gets as far as send_xcm
TransportCalled(st, origin, message) ==
    submit(st, origin, message, [ok |-> TRUE, v |-> "T"]).transport # NotCalled

\* the outcomes send_xcm can have in a submit: none when submit does not call it
OutcomesOf(st, origin, message) ==
    IF TransportCalled(st, origin, message) THEN TransportOutcomes ELSE {NotCalled}

NoMessage == [event_log |-> Garbage, proof |-> "valid"]

\* the messages submitted under an origin: every message under a signed origin; under
\* another origin, whose submit stops at ensure_signed, the messages that would pass
SubmittedBy(origin) ==
    IF origin = "Signed" THEN Messages
    ELSE {m \in Messages : /\ m.proof = "valid"
                           /\ m.event_log.wellformed
                           /\ m.event_log.gateway = GatewayAddress
                           /\ m.event_log.payload = "xcm"}

Submit ==
    /\ Len(events) < MaxEvents
    /\ \E origin \in Origins :
        \E message \in SubmittedBy(origin) :
        \E t \in OutcomesOf(Storage, origin, message) :
            LET res == submit(Storage, origin, message, t)
            IN  /\ Commit(with_storage_layer(Storage, res))
                /\ last' = [call |-> "submit", origin |-> origin, message |-> message,
                            mode |-> "Normal", transport |-> res.transport,
                            result |-> res.result]
                /\ UNCHANGED <<outbound, exporter, rewards>>
                /\ send_failed' = IF res.result[1] = "Send"
                                  THEN send_failed \cup {message.event_log.nonce}
                                  ELSE send_failed

SetOperatingMode ==
    /\ Len(events) < MaxEvents
    /\ \E origin \in Origins, mode \in BasicOperatingMode :
        LET res == set_operating_mode(Storage, origin, mode)
        IN  /\ Commit(with_storage_layer(Storage, res))
            /\ last' = [call |-> "set_operating_mode", origin |-> origin,
                        message |-> NoMessage, mode |-> mode,
                        transport |-> res.transport, result |-> res.result]
            /\ UNCHANGED <<send_failed, outbound, exporter, rewards>>

NoCall ==
    [call |-> "none", origin |-> "Root", message |-> NoMessage,
     mode |-> "Normal", transport |-> NotCalled, result |-> Ok]

InboundInit ==
    /\ Nonce = <<>>
    /\ OperatingMode = "Normal"
    /\ events = <<>>
    /\ sent = <<>>
    /\ last = NoCall
    /\ send_failed = {}

-----------------------------------------------------------------------------
(* Outbound: XCM programs *)

\* XcmConverter.ethereum_network and XcmConverter.agent_id
ethereum_network == "Ethereum"
agent_id == "agent"

\* Option<NetworkId> of a junction
NoNetwork == "None"
Networks == {NoNetwork, ethereum_network, "Kusama"}

\* junctions and locations
AccountKey20(network, key) == [junction |-> "AccountKey20", network |-> network, key |-> key]
AccountId32(network, id) == [junction |-> "AccountId32", network |-> network, key |-> id]
Parachain(id) == [junction |-> "Parachain", network |-> NoNetwork, key |-> id]
Location(parents, interior) == [parents |-> parents, interior |-> interior]

\* fungibility and assets
Fungible(amount) == [fungible |-> TRUE, amount |-> amount]
NonFungible == [fungible |-> FALSE, amount |-> 0]
Asset(id, fun) == [id |-> id, fun |-> fun]

\* the asset ids of the programs, in the order Assets keeps them sorted
WETH == Location(0, <<AccountKey20(NoNetwork, "0xAA")>>)
WKSM == Location(0, <<AccountKey20("Kusama", "0xAA")>>)
DOT == Location(1, <<>>)
PARA == Location(1, <<Parachain("2000")>>)
MOVED == Location(1, <<Parachain("3000")>>)
AssetIds == <<WETH, WKSM, DOT, PARA, MOVED>>

IdIndex(id) == CHOOSE i \in DOMAIN AssetIds : AssetIds[i] = id

Funs == {Fungible(0), Fungible(50), Fungible(100), NonFungible}

\* Assets: a list sorted by id without duplicates. The programs carry every list of
\* one asset, and the longer lists of fungible assets of amount 100.
SortedIds(n) ==
    {ids \in [1..n -> DOMAIN AssetIds] : \A i \in 1..(n - 1) : ids[i] < ids[i + 1]}

AssetLists ==
    {<<>>}
    \cup {<<Asset(AssetIds[i], fun)>> : i \in DOMAIN AssetIds, fun \in Funs}
    \cup UNION {{[k \in 1..n |-> Asset(AssetIds[ids[k]], Fungible(100))] : ids \in SortedIds(n)}
                : n \in 2..MaxAssets}

\* AssetFilter: Wild(All), or Definite(assets)
WildAll == [wild |-> TRUE, assets |-> <<>>]
Definite(assets) == [wild |-> FALSE, assets |-> assets]
Filters ==
    {WildAll, Definite(<<Asset(WETH, Fungible(100))>>), Definite(<<Asset(DOT, Fungible(100))>>),
     Definite(<<Asset(WETH, Fungible(50))>>)}

\* beneficiaries of DepositAsset
Beneficiaries ==
    {Location(0, <<AccountKey20(NoNetwork, "0xCD")>>),
     Location(0, <<AccountKey20(ethereum_network, "0xCD")>>),
     Location(0, <<AccountKey20("Kusama", "0xCD")>>),
     Location(0, <<AccountId32(NoNetwork, "0xCD")>>),
     Location(1, <<AccountKey20(NoNetwork, "0xCD")>>)}

FeeAssets == {Asset(WETH, Fungible(5)), Asset(WETH, Fungible(10)), Asset(WETH, NonFungible)}

Topics == {"T", "U"}

\* Instruction<Call>, the variants convert tells apart and one it does not (RefundSurplus)
ReserveAssetDeposited(assets) == [kind |-> "ReserveAssetDeposited", assets |-> assets]
WithdrawAsset(assets) == [kind |-> "WithdrawAsset", assets |-> assets]
ClearOrigin == [kind |-> "ClearOrigin"]
BuyExecution(fees) == [kind |-> "BuyExecution", fees |-> fees]
ExpectAsset == [kind |-> "ExpectAsset"]
DepositAsset(assets, beneficiary) ==
    [kind |-> "DepositAsset", assets |-> assets, beneficiary |-> beneficiary]
SetTopic(id) == [kind |-> "SetTopic", id |-> id]
RefundSurplus == [kind |-> "RefundSurplus"]

Instructions ==
    {ReserveAssetDeposited(a) : a \in AssetLists}
    \cup {WithdrawAsset(a) : a \in AssetLists}
    \cup {ClearOrigin, ExpectAsset, RefundSurplus}
    \cup {BuyExecution(f) : f \in FeeAssets}
    \cup {DepositAsset(f, b) : f \in Filters, b \in Beneficiaries}
    \cup {SetTopic(t) : t \in Topics}

\* enum XcmConverterError
XcmConverterError ==
    {"UnexpectedEndOfXcm", "EndOfXcmMessageExpected", "WithdrawAssetExpected",
     "DepositAssetExpected", "NoReserveAssets", "FilterDoesNotConsumeAllAssets",
     "TooManyAssets", "ZeroAssetTransfer", "BeneficiaryResolutionFailed",
     "AssetResolutionFailed", "InvalidFeeAsset", "SetTopicExpected",
     "ReserveAssetDepositedExpected", "InvalidAsset", "UnexpectedInstruction",
     "TooManyCommands"}

-----------------------------------------------------------------------------
(* Outbound: what the converter calls *)

\* Asset::contains: the same id, and a fungible amount no greater or the same instance
Asset_contains(outer, inner) ==
    /\ outer.id = inner.id
    /\ IF outer.fun.fungible /\ inner.fun.fungible
       THEN inner.fun.amount <= outer.fun.amount
       ELSE outer.fun = inner.fun

\* AssetFilter::matches
matches(filter, asset) ==
    \/ filter.wild
    \/ \E i \in DOMAIN filter.assets : Asset_contains(filter.assets[i], asset)

\* TokenIdOf::convert_location: the token id of a location it can describe
TokenIdOf_convert_location(location) ==
    IF location.parents > 0
    THEN [some |-> TRUE, v |-> <<"TokenId", location>>]
    ELSE [some |-> FALSE, v |-> <<>>]

\* ConvertAssetId::convert: the location registered for a token id
ConvertAssetId_convert(token_id) ==
    CASE token_id = <<"TokenId", DOT>> -> [some |-> TRUE, v |-> DOT]
      [] token_id = <<"TokenId", MOVED>> -> [some |-> TRUE, v |-> DOT]
      [] OTHER -> [some |-> FALSE, v |-> DOT]

-----------------------------------------------------------------------------
(* Outbound: XcmConverter *)

\* Result<Message, XcmConverterError>, with the cursor: the instructions consumed so far.
\* A message holds its one command in a sequence; BoundedVec::try_from of a vector of
\* one command does not fail, so TooManyCommands is never returned.
NoMessageBuilt == <<>>
ConvOk(message, consumed) ==
    [ok |-> TRUE, err |-> "none", message |-> message, consumed |-> consumed]
ConvErr(e) == [ok |-> FALSE, err |-> e, message |-> NoMessageBuilt, consumed |-> 0]

\* XcmConverter::next with `consumed` instructions consumed: the instruction it returns
next(prog, consumed) ==
    IF consumed < Len(prog)
    THEN [ok |-> TRUE, v |-> prog[consumed + 1]]
    ELSE [ok |-> FALSE, v |-> "UnexpectedEndOfXcm"]

\* XcmConverter::peek
peek(prog, consumed) ==
    IF consumed < Len(prog)
    THEN [ok |-> TRUE, v |-> prog[consumed + 1]]
    ELSE [ok |-> FALSE, v |-> "UnexpectedEndOfXcm"]

\* peek matching ClearOrigin only: no other instruction is skipped
peek_is_ClearOriginOnly(prog, consumed, kind) ==
    peek(prog, consumed).ok /\ kind = "ClearOrigin" /\ peek(prog, consumed).v.kind = kind

\* match_expression!(self.peek(), Ok(<kind>), ()).is_some()
peek_is(prog, consumed, kind) ==
    peek(prog, consumed).ok /\ peek(prog, consumed).v.kind = kind

\* XcmConverter::network_matches
network_matches(network) ==
    IF network # NoNetwork THEN network = ethereum_network ELSE TRUE

\* location.unpack() matching (0, [AccountKey20 { network, key }]) if self.network_matches(network)
is_ethereum_account(location) ==
    /\ location.parents = 0
    /\ Len(location.interior) = 1
    /\ location.interior[1].junction = "AccountKey20"
    /\ network_matches(location.interior[1].network)

\* send_tokens_message, taking the first reserved asset of several
send_tokens_message_FirstAsset(prog) ==
    LET first == next(prog, 0)
    IN  IF ~first.ok THEN ConvErr(first.v)
        ELSE IF first.v.kind # "WithdrawAsset" THEN ConvErr("WithdrawAssetExpected")
        ELSE
        LET reserve_assets == first.v.assets
            c1 == IF peek_is(prog, 1, "ClearOrigin") THEN 2 ELSE 1
            buy == next(prog, c1)
        IN  IF ~buy.ok THEN ConvErr(buy.v)
            ELSE IF buy.v.kind # "BuyExecution" THEN ConvErr("InvalidFeeAsset")
            ELSE IF ~buy.v.fees.fun.fungible THEN ConvErr("AssetResolutionFailed")
            ELSE
            LET fee_amount == buy.v.fees.fun.amount
                c2 == IF peek_is(prog, c1 + 1, "ExpectAsset") THEN c1 + 2 ELSE c1 + 1
                deposit == next(prog, c2)
            IN  IF ~deposit.ok THEN ConvErr(deposit.v)
                ELSE IF deposit.v.kind # "DepositAsset" THEN ConvErr("DepositAssetExpected")
                ELSE IF ~is_ethereum_account(deposit.v.beneficiary)
                    THEN ConvErr("BeneficiaryResolutionFailed")
                ELSE IF Len(reserve_assets) = 0 THEN ConvErr("NoReserveAssets")
                ELSE IF \E i \in DOMAIN reserve_assets :
                            ~matches(deposit.v.assets, reserve_assets[i])
                    THEN ConvErr("FilterDoesNotConsumeAllAssets")
                ELSE
                LET reserve_asset == reserve_assets[1]
                    topic == next(prog, c2 + 1)
                IN  IF ~(reserve_asset.fun.fungible /\ is_ethereum_account(reserve_asset.id))
                        THEN ConvErr("AssetResolutionFailed")
                    ELSE IF ~(reserve_asset.fun.amount > 0) THEN ConvErr("ZeroAssetTransfer")
                    ELSE IF ~topic.ok THEN ConvErr(topic.v)
                    ELSE IF topic.v.kind # "SetTopic" THEN ConvErr("SetTopicExpected")
                    ELSE ConvOk([id |-> topic.v.id,
                                 origin |-> "H256::zero",
                                 fee |-> fee_amount,
                                 commands |->
                                    <<[command |-> "UnlockNativeToken",
                                       agent_id |-> agent_id,
                                       token |-> reserve_asset.id.interior[1].key,
                                       recipient |-> deposit.v.beneficiary.interior[1].key,
                                       amount |-> reserve_asset.fun.amount]>>],
                                c2 + 2)

\* XcmConverter::send_tokens_message
send_tokens_message(prog) ==
    LET first == next(prog, 0)
    IN  IF ~first.ok THEN ConvErr(first.v)
        ELSE IF first.v.kind # "WithdrawAsset" THEN ConvErr("WithdrawAssetExpected")
        ELSE
        LET reserve_assets == first.v.assets
            c1 == IF peek_is(prog, 1, "ClearOrigin") THEN 2 ELSE 1
            buy == next(prog, c1)
        IN  IF ~buy.ok THEN ConvErr(buy.v)
            ELSE IF buy.v.kind # "BuyExecution" THEN ConvErr("InvalidFeeAsset")
            ELSE IF ~buy.v.fees.fun.fungible THEN ConvErr("AssetResolutionFailed")
            ELSE
            LET fee_amount == buy.v.fees.fun.amount
                c2 == IF peek_is(prog, c1 + 1, "ExpectAsset") THEN c1 + 2 ELSE c1 + 1
                deposit == next(prog, c2)
            IN  IF ~deposit.ok THEN ConvErr(deposit.v)
                ELSE IF deposit.v.kind # "DepositAsset" THEN ConvErr("DepositAssetExpected")
                ELSE IF ~is_ethereum_account(deposit.v.beneficiary)
                    THEN ConvErr("BeneficiaryResolutionFailed")
                ELSE IF Len(reserve_assets) = 0 THEN ConvErr("NoReserveAssets")
                ELSE IF \E i \in DOMAIN reserve_assets :
                            ~matches(deposit.v.assets, reserve_assets[i])
                    THEN ConvErr("FilterDoesNotConsumeAllAssets")
                ELSE IF Len(reserve_assets) # 1 THEN ConvErr("TooManyAssets")
                ELSE
                LET reserve_asset == reserve_assets[1]
                    topic == next(prog, c2 + 1)
                IN  IF ~(reserve_asset.fun.fungible /\ is_ethereum_account(reserve_asset.id))
                        THEN ConvErr("AssetResolutionFailed")
                    ELSE IF ~(reserve_asset.fun.amount > 0) THEN ConvErr("ZeroAssetTransfer")
                    ELSE IF ~topic.ok THEN ConvErr(topic.v)
                    ELSE IF topic.v.kind # "SetTopic" THEN ConvErr("SetTopicExpected")
                    ELSE ConvOk([id |-> topic.v.id,
                                 origin |-> "H256::zero",
                                 fee |-> fee_amount,
                                 commands |->
                                    <<[command |-> "UnlockNativeToken",
                                       agent_id |-> agent_id,
                                       token |-> reserve_asset.id.interior[1].key,
                                       recipient |-> deposit.v.beneficiary.interior[1].key,
                                       amount |-> reserve_asset.fun.amount]>>],
                                c2 + 2)

\* send_native_tokens_message, transferring any amount
send_native_tokens_message_AnyAmount(prog) ==
    LET first == next(prog, 0)
    IN  IF ~first.ok THEN ConvErr(first.v)
        ELSE IF first.v.kind # "ReserveAssetDeposited"
            THEN ConvErr("ReserveAssetDepositedExpected")
        ELSE
        LET reserve_assets == first.v.assets
            c1 == IF peek_is(prog, 1, "ClearOrigin") THEN 2 ELSE 1
            buy == next(prog, c1)
        IN  IF ~buy.ok THEN ConvErr(buy.v)
            ELSE IF buy.v.kind # "BuyExecution" THEN ConvErr("InvalidFeeAsset")
            ELSE IF ~buy.v.fees.fun.fungible THEN ConvErr("AssetResolutionFailed")
            ELSE
            LET fee_amount == buy.v.fees.fun.amount
                c2 == c1 + 1
                deposit == next(prog, c2)
            IN  IF ~deposit.ok THEN ConvErr(deposit.v)
                ELSE IF deposit.v.kind # "DepositAsset" THEN ConvErr("DepositAssetExpected")
                ELSE IF ~is_ethereum_account(deposit.v.beneficiary)
                    THEN ConvErr("BeneficiaryResolutionFailed")
                ELSE IF Len(reserve_assets) = 0 THEN ConvErr("NoReserveAssets")
                ELSE IF \E i \in DOMAIN reserve_assets :
                            ~matches(deposit.v.assets, reserve_assets[i])
                    THEN ConvErr("FilterDoesNotConsumeAllAssets")
                ELSE IF Len(reserve_assets) # 1 THEN ConvErr("TooManyAssets")
                ELSE
                LET reserve_asset == reserve_assets[1]
                    asset_id == reserve_asset.id
                    token_id == TokenIdOf_convert_location(asset_id)
                    expected_asset_id == ConvertAssetId_convert(token_id.v)
                    topic == next(prog, c2 + 1)
                IN  IF ~reserve_asset.fun.fungible THEN ConvErr("AssetResolutionFailed")
                    ELSE IF ~token_id.some THEN ConvErr("InvalidAsset")
                    ELSE IF ~expected_asset_id.some THEN ConvErr("InvalidAsset")
                    ELSE IF asset_id # expected_asset_id.v THEN ConvErr("InvalidAsset")
                    ELSE IF ~topic.ok THEN ConvErr(topic.v)
                    ELSE IF topic.v.kind # "SetTopic" THEN ConvErr("SetTopicExpected")
                    ELSE ConvOk([origin |-> "H256::zero",
                                 fee |-> fee_amount,
                                 id |-> topic.v.id,
                                 commands |->
                                    <<[command |-> "MintForeignToken",
                                       token_id |-> token_id.v,
                                       recipient |-> deposit.v.beneficiary.interior[1].key,
                                       amount |-> reserve_asset.fun.amount]>>],
                                c2 + 2)

\* XcmConverter::send_native_tokens_message
send_native_tokens_message(prog) ==
    LET first == next(prog, 0)
    IN  IF ~first.ok THEN ConvErr(first.v)
        ELSE IF first.v.kind # "ReserveAssetDeposited"
            THEN ConvErr("ReserveAssetDepositedExpected")
        ELSE
        LET reserve_assets == first.v.assets
            c1 == IF peek_is(prog, 1, "ClearOrigin") THEN 2 ELSE 1
            buy == next(prog, c1)
        IN  IF ~buy.ok THEN ConvErr(buy.v)
            ELSE IF buy.v.kind # "BuyExecution" THEN ConvErr("InvalidFeeAsset")
            ELSE IF ~buy.v.fees.fun.fungible THEN ConvErr("AssetResolutionFailed")
            ELSE
            LET fee_amount == buy.v.fees.fun.amount
                c2 == c1 + 1
                deposit == next(prog, c2)
            IN  IF ~deposit.ok THEN ConvErr(deposit.v)
                ELSE IF deposit.v.kind # "DepositAsset" THEN ConvErr("DepositAssetExpected")
                ELSE IF ~is_ethereum_account(deposit.v.beneficiary)
                    THEN ConvErr("BeneficiaryResolutionFailed")
                ELSE IF Len(reserve_assets) = 0 THEN ConvErr("NoReserveAssets")
                ELSE IF \E i \in DOMAIN reserve_assets :
                            ~matches(deposit.v.assets, reserve_assets[i])
                    THEN ConvErr("FilterDoesNotConsumeAllAssets")
                ELSE IF Len(reserve_assets) # 1 THEN ConvErr("TooManyAssets")
                ELSE
                LET reserve_asset == reserve_assets[1]
                    asset_id == reserve_asset.id
                    token_id == TokenIdOf_convert_location(asset_id)
                    expected_asset_id == ConvertAssetId_convert(token_id.v)
                    topic == next(prog, c2 + 1)
                IN  IF ~reserve_asset.fun.fungible THEN ConvErr("AssetResolutionFailed")
                    ELSE IF ~(reserve_asset.fun.amount > 0) THEN ConvErr("ZeroAssetTransfer")
                    ELSE IF ~token_id.some THEN ConvErr("InvalidAsset")
                    ELSE IF ~expected_asset_id.some THEN ConvErr("InvalidAsset")
                    ELSE IF asset_id # expected_asset_id.v THEN ConvErr("InvalidAsset")
                    ELSE IF ~topic.ok THEN ConvErr(topic.v)
                    ELSE IF topic.v.kind # "SetTopic" THEN ConvErr("SetTopicExpected")
                    ELSE ConvOk([origin |-> "H256::zero",
                                 fee |-> fee_amount,
                                 id |-> topic.v.id,
                                 commands |->
                                    <<[command |-> "MintForeignToken",
                                       token_id |-> token_id.v,
                                       recipient |-> deposit.v.beneficiary.interior[1].key,
                                       amount |-> reserve_asset.fun.amount]>>],
                                c2 + 2)

\* convert, running the path of WithdrawAsset on every other first instruction
convert_DefaultPath(prog) ==
    LET first == peek(prog, 0)
        result ==
            IF ~first.ok THEN ConvErr(first.v)
            ELSE IF first.v.kind = "ReserveAssetDeposited"
                THEN send_native_tokens_message(prog)
            ELSE send_tokens_message(prog)
    IN  IF ~result.ok THEN result
        ELSE IF next(prog, result.consumed).ok THEN ConvErr("EndOfXcmMessageExpected")
        ELSE result

\* convert, returning the matched message with instructions left in the program
convert_NoEndCheck(prog) ==
    LET first == peek(prog, 0)
    IN  IF ~first.ok THEN ConvErr(first.v)
        ELSE IF first.v.kind = "ReserveAssetDeposited" THEN send_native_tokens_message(prog)
        ELSE IF first.v.kind = "WithdrawAsset" THEN send_tokens_message(prog)
        ELSE ConvErr("UnexpectedInstruction")

\* XcmConverter::convert
convert(prog) ==
    LET first == peek(prog, 0)
        result ==
            IF ~first.ok THEN ConvErr(first.v)
            ELSE IF first.v.kind = "ReserveAssetDeposited"
                THEN send_native_tokens_message(prog)
            ELSE IF first.v.kind = "WithdrawAsset" THEN send_tokens_message(prog)
            ELSE ConvErr("UnexpectedInstruction")
    IN  IF ~result.ok THEN result
        ELSE IF next(prog, result.consumed).ok THEN ConvErr("EndOfXcmMessageExpected")
        ELSE result

-----------------------------------------------------------------------------
(* Outbound: what EthereumBlobExporter is called with *)

\* Option<T>: None, or Some(v)
None == {}
Some(v) == {v}
unwrap(o) == CHOOSE v \in o : TRUE

\* Junction::GlobalConsensus
GlobalConsensus(network) == [junction |-> "GlobalConsensus", network |-> network, key |-> ""]

\* InteriorLocation Here
Here == <<>>

\* UniversalLocation::get()
universal_location == <<GlobalConsensus("Polkadot"), Parachain("1002")>>

\* the networks validate is asked to export to
ExportNetworks == {ethereum_network, "Kusama"}

\* the destinations validate is handed
Destinations == {None, Some(Here), Some(<<Parachain("1000")>>)}

\* the universal sources validate is handed
AssetHub == <<GlobalConsensus("Polkadot"), Parachain("1000")>>
UniversalSources ==
    {None,
     Some(AssetHub),
     Some(<<GlobalConsensus("Kusama"), Parachain("1000")>>),
     Some(<<Parachain("1000")>>),
     Some(<<GlobalConsensus("Polkadot")>>),
     Some(<<GlobalConsensus("Polkadot"), AccountId32(NoNetwork, "0xEE")>>),
     Some(<<GlobalConsensus("Polkadot"), Parachain("1000"), AccountId32(NoNetwork, "0xEE")>>),
     Some(<<GlobalConsensus("Polkadot"), Parachain("9999")>>)}

\* what OutboundQueue::validate can return: Ok((ticket, fee)) or Err
QueueOutcomes == {[ok |-> TRUE, fee |-> 3], [ok |-> FALSE, fee |-> 0]}
QueueNotCalled == [ok |-> FALSE, fee |-> 0]

\* InteriorLocation::split_global: the global consensus a location opens with, and the rest
split_global(interior) ==
    IF Len(interior) > 0 /\ interior[1].junction = "GlobalConsensus"
    THEN [ok |-> TRUE, net |-> interior[1].network, sub |-> Tail(interior)]
    ELSE [ok |-> FALSE, net |-> NoNetwork, sub |-> <<>>]

\* InteriorLocation::global_consensus
global_consensus(interior) ==
    IF Len(interior) > 0 /\ interior[1].junction = "GlobalConsensus"
    THEN [ok |-> TRUE, net |-> interior[1].network]
    ELSE [ok |-> FALSE, net |-> NoNetwork]

\* AgentHashedDescription::convert_location: the agent of a location it can describe
AgentHashedDescription_convert_location(location) ==
    IF location.interior = <<Parachain("9999")>> THEN None ELSE Some(agent_id)

\* instructions.matcher().match_next_inst_while(|_| true, f): BadFormat on an empty
\* program, else the first error f returns on an instruction, else Ok
match_next_inst_while(prog, f_err) ==
    IF Len(prog) = 0 THEN [ok |-> FALSE, err |-> "BadFormat"]
    ELSE IF \E i \in DOMAIN prog : f_err[prog[i].kind]
        THEN [ok |-> FALSE, err |-> "Unsupported"]
    ELSE [ok |-> TRUE, err |-> "none"]

\* the kinds of instruction the closure of the scan is applied to
InstructionKinds ==
    {"ReserveAssetDeposited", "WithdrawAsset", "ClearOrigin", "BuyExecution", "ExpectAsset",
     "DepositAsset", "SetTopic", "RefundSurplus"}

\* a closure returning Err on every instruction
inspect_AnyInstruction == [kind \in InstructionKinds |-> TRUE]

\* the closure of the scan: ExpectAsset(..) => Err(Unsupported), _ => Ok(Continue)
inspect_ExpectAsset == [kind \in InstructionKinds |-> kind = "ExpectAsset"]

\* OutboundQueue::Ticket of a message, its encoding as bytes, and bytes that decode to no ticket
Ticket(message) == [message |-> message]
encode(ticket) == [bytes |-> "ticket", of |-> ticket]
NoTicket == Ticket([id |-> "none", origin |-> "H256::zero", fee |-> 0, commands |-> <<>>])
UndecodableBlob == [bytes |-> "garbage", of |-> NoTicket]

\* OutboundQueue::Ticket::decode
Ticket_decode(bytes) ==
    IF bytes.bytes = "ticket" THEN [ok |-> TRUE, ticket |-> bytes.of]
    ELSE [ok |-> FALSE, ticket |-> NoTicket]

\* XcmHash::from(message.id)
XcmHash(id) == <<"XcmHash", id>>
NoHash == <<"XcmHash", "none">>

\* SendResult<Ticket> of validate, with the arguments as validate leaves them and
\* whether it invoked the converter and the Queue
NoBlob == <<UndecodableBlob, NoHash>>
NoFee == Asset(Location(1, <<>>), Fungible(0))
SendOk(blob, fee, args) ==
    [ok |-> TRUE, err |-> "none", blob |-> blob, fee |-> fee, args |-> args,
     converted |-> TRUE, queue_called |-> TRUE]
SendErr(e, args, converted, queue_called) ==
    [ok |-> FALSE, err |-> e, blob |-> NoBlob, fee |-> NoFee, args |-> args,
     converted |-> converted, queue_called |-> queue_called]

\* the &mut Option arguments of validate
Args(universal_source, destination, message) ==
    [universal_source |-> universal_source, destination |-> destination, message |-> message]

\* The Option cells validate works on: its three &mut arguments and the temporary
\* a clone is made in. A place is a memory with the cell an expression denotes.
Memory(universal_source, destination, message) ==
    [universal_source |-> universal_source, destination |-> destination,
     message |-> message, temporary |-> None]

\* the arguments as a memory holds them
ArgsOf(mem) == Args(mem.universal_source, mem.destination, mem.message)

\* clone, giving the argument itself in place of a copy
clone_Alias(mem, cell) == [mem |-> mem, cell |-> cell]

\* Option::clone of an argument: a temporary holding a copy of its value
clone(mem, cell) == [mem |-> [mem EXCEPT !.temporary = mem[cell]], cell |-> "temporary"]

\* Option::take: returns the value of the cell and leaves None in it
take(place) == [v |-> place.mem[place.cell], mem |-> [place.mem EXCEPT ![place.cell] = None]]

-----------------------------------------------------------------------------
(* Outbound: EthereumBlobExporter *)

\* validate, exporting to any destination
validate_AnyDestination(network, universal_source, destination, message, q) ==
    LET expected_network == ethereum_network
        received == Memory(universal_source, destination, message)
        \* destination.clone().take()
        dest == take(clone(received, "destination"))
        \* universal_source.clone().take()
        source == take(clone(dest.mem, "universal_source"))
        \* message.clone()
        cloned == clone(source.mem, "message")
        msg == cloned.mem[cloned.cell]
        args == ArgsOf(cloned.mem)
    IN  IF network # expected_network
            THEN SendErr("NotApplicable", ArgsOf(received), FALSE, FALSE)
        ELSE IF dest.v = None THEN SendErr("MissingArgument", ArgsOf(dest.mem), FALSE, FALSE)
        ELSE IF source.v = None
            THEN SendErr("MissingArgument", ArgsOf(source.mem), FALSE, FALSE)
        ELSE
        LET split == split_global(unwrap(source.v))
            local_net == split.net
            local_sub == split.sub
            source_location == Location(1, local_sub)
            agent == AgentHashedDescription_convert_location(source_location)
        IN  IF ~split.ok THEN SendErr("NotApplicable", ArgsOf(source.mem), FALSE, FALSE)
            ELSE IF ~(/\ global_consensus(universal_location).ok
                      /\ local_net = global_consensus(universal_location).net)
                THEN SendErr("NotApplicable", ArgsOf(source.mem), FALSE, FALSE)
            ELSE IF ~(Len(local_sub) = 1 /\ local_sub[1].junction = "Parachain")
                THEN SendErr("NotApplicable", ArgsOf(source.mem), FALSE, FALSE)
            ELSE IF agent = None THEN SendErr("NotApplicable", ArgsOf(source.mem), FALSE, FALSE)
            ELSE IF msg = None THEN SendErr("MissingArgument", args, FALSE, FALSE)
            ELSE
            LET instructions == unwrap(msg)
                result == match_next_inst_while(instructions, inspect_ExpectAsset)
                converted == convert(instructions)
            IN  IF ~(~result.ok) THEN SendErr("NotApplicable", args, FALSE, FALSE)
                ELSE IF ~converted.ok THEN SendErr("Unroutable", args, TRUE, FALSE)
                ELSE IF ~q.ok THEN SendErr("Unroutable", args, TRUE, TRUE)
                ELSE SendOk(<<encode(Ticket(converted.message)), XcmHash(converted.message.id)>>,
                            Asset(Location(1, <<>>), Fungible(q.fee)),
                            args)

\* EthereumBlobExporter::validate; q is what OutboundQueue::validate returns if it is called
validate(network, universal_source, destination, message, q) ==
    LET expected_network == ethereum_network
        received == Memory(universal_source, destination, message)
        \* destination.clone().take()
        dest == take(clone(received, "destination"))
        \* universal_source.clone().take()
        source == take(clone(dest.mem, "universal_source"))
        \* message.clone()
        cloned == clone(source.mem, "message")
        msg == cloned.mem[cloned.cell]
        args == ArgsOf(cloned.mem)
    IN  IF network # expected_network
            THEN SendErr("NotApplicable", ArgsOf(received), FALSE, FALSE)
        ELSE IF dest.v = None THEN SendErr("MissingArgument", ArgsOf(dest.mem), FALSE, FALSE)
        ELSE IF unwrap(dest.v) # Here
            THEN SendErr("NotApplicable", ArgsOf(dest.mem), FALSE, FALSE)
        ELSE IF source.v = None
            THEN SendErr("MissingArgument", ArgsOf(source.mem), FALSE, FALSE)
        ELSE
        LET split == split_global(unwrap(source.v))
            local_net == split.net
            local_sub == split.sub
            source_location == Location(1, local_sub)
            agent == AgentHashedDescription_convert_location(source_location)
        IN  IF ~split.ok THEN SendErr("NotApplicable", ArgsOf(source.mem), FALSE, FALSE)
            ELSE IF ~(/\ global_consensus(universal_location).ok
                      /\ local_net = global_consensus(universal_location).net)
                THEN SendErr("NotApplicable", ArgsOf(source.mem), FALSE, FALSE)
            ELSE IF ~(Len(local_sub) = 1 /\ local_sub[1].junction = "Parachain")
                THEN SendErr("NotApplicable", ArgsOf(source.mem), FALSE, FALSE)
            ELSE IF agent = None THEN SendErr("NotApplicable", ArgsOf(source.mem), FALSE, FALSE)
            ELSE IF msg = None THEN SendErr("MissingArgument", args, FALSE, FALSE)
            ELSE
            LET instructions == unwrap(msg)
                result == match_next_inst_while(instructions, inspect_ExpectAsset)
                converted == convert(instructions)
            IN  IF ~(~result.ok) THEN SendErr("NotApplicable", args, FALSE, FALSE)
                ELSE IF ~converted.ok THEN SendErr("Unroutable", args, TRUE, FALSE)
                ELSE IF ~q.ok THEN SendErr("Unroutable", args, TRUE, TRUE)
                ELSE SendOk(<<encode(Ticket(converted.message)), XcmHash(converted.message.id)>>,
                            Asset(Location(1, <<>>), Fungible(q.fee)),
                            args)

\* EthereumBlobExporter::deliver; d is what OutboundQueue::deliver returns if it is called
deliver(blob, d) ==
    LET ticket == Ticket_decode(blob[1])
    IN  IF ~ticket.ok
        THEN [ok |-> FALSE, v |-> "NotApplicable", handed |-> <<>>]
        ELSE IF ~d.ok
            THEN [ok |-> FALSE, v |-> "Transport", handed |-> <<ticket.ticket>>]
        ELSE [ok |-> TRUE, v |-> XcmHash(d.id), handed |-> <<ticket.ticket>>]

-----------------------------------------------------------------------------
(* Outbound: the converter run on the programs a caller can build *)

\* A program is built one instruction at a time and converted as it stands. A program
\* that convert rejects for another reason than running out of instructions is
\* rejected whatever follows it, for convert has stopped reading: it is not extended.
Extendable ==
    /\ Len(xcm) < MaxLen
    /\ out.err \in {"none", "UnexpectedEndOfXcm"}

Convert ==
    /\ Extendable
    /\ \E inst \in Instructions :
        /\ xcm' = Append(xcm, inst)
        /\ out' = convert(xcm')
    /\ UNCHANGED <<inbound, exporter, rewards>>

OutboundInit ==
    /\ xcm = <<>>
    /\ out = convert(xcm)

-----------------------------------------------------------------------------
(* Outbound: the exporter run on the programs a caller can build *)

\* what OutboundQueue::deliver can return: Ok(message_id) or Err
DeliverOutcomes == {[ok |-> TRUE, id |-> "T"], [ok |-> FALSE, id |-> "none"]}

\* the instructions of the programs handed to the exporter
ExportedInstructions ==
    {WithdrawAsset(<<Asset(WETH, Fungible(100))>>),
     WithdrawAsset(<<Asset(WETH, Fungible(100)), Asset(WKSM, Fungible(100))>>),
     ReserveAssetDeposited(<<Asset(DOT, Fungible(50))>>),
     ClearOrigin, ExpectAsset, RefundSurplus,
     BuyExecution(Asset(WETH, Fungible(5))),
     DepositAsset(WildAll, Location(0, <<AccountKey20(NoNetwork, "0xCD")>>)),
     DepositAsset(WildAll, Location(0, <<AccountId32(NoNetwork, "0xCD")>>)),
     SetTopic("T"), SetTopic("U")}

NoArgs == Args(None, None, None)
NotValidated ==
    [called |-> FALSE, network |-> ethereum_network, args |-> NoArgs, q |-> QueueNotCalled,
     result |-> SendErr("none", NoArgs, FALSE, FALSE)]
NotDelivered ==
    [called |-> FALSE, blob |-> NoBlob, result |-> [ok |-> FALSE, v |-> "none", handed |-> <<>>]]

\* the program handed to the exporter is built before validate is first called with it
Build ==
    /\ ~validated.called
    /\ Extendable
    /\ \E inst \in ExportedInstructions :
        /\ xcm' = Append(xcm, inst)
        /\ out' = convert(xcm')
    /\ UNCHANGED <<inbound, exporter, rewards>>

\* the outcomes OutboundQueue::validate can have in a validate: none when it is not called
QueueOutcomesOf(network, universal_source, destination, message) ==
    IF validate(network, universal_source, destination, message,
                [ok |-> TRUE, fee |-> 3]).queue_called
    THEN QueueOutcomes ELSE {QueueNotCalled}

\* validate is called once with the program built; it keeps no state of its own, so
\* a second call with the same program would return what the first returned
Validate ==
    /\ ~validated.called
    /\ \E network \in ExportNetworks, universal_source \in UniversalSources,
          destination \in Destinations, message \in {None, Some(xcm)} :
        \E q \in QueueOutcomesOf(network, universal_source, destination, message) :
            LET result == validate(network, universal_source, destination, message, q)
            IN  /\ validated' = [called |-> TRUE, network |-> network,
                                 args |-> Args(universal_source, destination, message),
                                 q |-> q, result |-> result]
                /\ tickets' = IF result.ok THEN tickets \cup {result.blob} ELSE tickets
    /\ UNCHANGED <<inbound, outbound, queue, delivered, rewards>>

\* deliver is called with a ticket validate returned, or with bytes that are no ticket
Deliver ==
    /\ Len(queue) < MaxDeliveries
    /\ \E blob \in tickets \cup {NoBlob} :
        \E d \in (IF Ticket_decode(blob[1]).ok THEN DeliverOutcomes ELSE {[ok |-> FALSE, id |-> "none"]}) :
            LET result == deliver(blob, d)
            IN  /\ queue' = queue \o [i \in DOMAIN result.handed |->
                                        [ticket |-> result.handed[i], accepted |-> result.ok]]
                /\ delivered' = [called |-> TRUE, blob |-> blob, result |-> result]
    /\ UNCHANGED <<inbound, outbound, validated, tickets, rewards>>

ExporterInit ==
    /\ validated = NotValidated
    /\ tickets = {}
    /\ queue = <<>>
    /\ delivered = NotDelivered

-----------------------------------------------------------------------------
(* Rewards pallet *)

\* the relayer accounts
Accounts == {"relayer", "other"}

\* BalanceOf<T>: the values of the balance type, 0 up to its largest
Balances == 0..MaxBalance

\* the origins claim is dispatched with: a signed account, or root
NoAccount == "none"
RewardOrigins == {<<"Signed", a>> : a \in Accounts} \cup {<<"Root", NoAccount>>}

\* Event::RewardDeposited and Event::RewardClaimed
RewardDeposited(account_id, value) ==
    [event |-> "RewardDeposited", account_id |-> account_id, deposit_address |-> NoAccount,
     value |-> value, message_id |-> "none"]
RewardClaimed(account_id, deposit_address, value, message_id) ==
    [event |-> "RewardClaimed", account_id |-> account_id,
     deposit_address |-> deposit_address, value |-> value, message_id |-> message_id]

\* what T::AssetTransactor answers in burn_fees: can_check_out and withdraw_asset
AssetTransactorOutcomes == [can_check_out : BOOLEAN, withdraw_asset : BOOLEAN]
NotBurnt == [can_check_out |-> FALSE, withdraw_asset |-> FALSE]

\* Saturating::saturating_add and saturating_sub of the balance type
saturating_add(x, y) == IF x + y > MaxBalance THEN MaxBalance ELSE x + y
saturating_sub(x, y) == IF y > x THEN 0 ELSE x - y

\* TryInto::<u128>::try_into(value): a balance of the balance type fits u128
u128_try_from(value) == value \in Balances

\* xcm_fee, a constant of process_claim, counted in units of 10_000_000_000, and
\* its conversion to the balance type
xcm_fee == 1
Balance_try_from(fee) == fee \in Balances

\* impl From<XcmpSendError> for Error<T> of the rewards pallet
RewardsErrorFrom(e) ==
    CASE e = "NotApplicable" -> Send("NotApplicable")
      [] e = "Unroutable" -> Send("NotRoutable")
      [] e = "Transport" -> Send("Transport")
      [] e = "DestinationUnsupported" -> Send("DestinationUnsupported")
      [] e = "ExceedsMaxMessageSize" -> Send("ExceedsMaxMessageSize")
      [] e = "MissingArgument" -> Send("MissingArgument")
      [] e = "Fees" -> Send("Fees")

\* the storage of the rewards pallet and the events it deposited
RewardStorage == [RewardsMapping |-> RewardsMapping, events |-> reward_events]

\* Pallet::burn_fees; b is what the asset transactor answers
burn_fees(b) ==
    IF ~b.can_check_out THEN Err("FundsUnavailable")
    ELSE IF ~b.withdraw_asset THEN Err("FundsUnavailable")
    ELSE Ok

\* process_claim, paying out any value
process_claim_NoFundsCheck(st, account_id, deposit_address, value, message_id, b, t) ==
    LET deducted ==
            [st EXCEPT !.RewardsMapping[account_id] = saturating_sub(@, value)]
        claimed ==
            deposit_event(deducted,
                          RewardClaimed(account_id, deposit_address, value, message_id))
    IN  IF ~u128_try_from(value) THEN Outcome(Err("InvalidAmount"), st, NotCalled)
        ELSE IF ~Balance_try_from(xcm_fee) THEN Outcome(Err("InvalidFee"), st, NotCalled)
        ELSE IF burn_fees(b) # Ok THEN Outcome(burn_fees(b), st, NotCalled)
        ELSE IF ~t.ok THEN Outcome(RewardsErrorFrom(t.v), deducted, t)
        ELSE Outcome(Ok, claimed, t)

\* Pallet::process_claim, the body run on the storage st; b is what the asset
\* transactor answers in burn_fees and t what send_xcm returns, if they are called
process_claim(st, account_id, deposit_address, value, message_id, b, t) ==
    LET reward_balance == st.RewardsMapping[account_id]
        deducted ==
            [st EXCEPT !.RewardsMapping[account_id] = saturating_sub(@, value)]
        claimed ==
            deposit_event(deducted,
                          RewardClaimed(account_id, deposit_address, value, message_id))
    IN  IF value > reward_balance THEN Outcome(Err("InsufficientFunds"), st, NotCalled)
        ELSE IF ~u128_try_from(value) THEN Outcome(Err("InvalidAmount"), st, NotCalled)
        ELSE IF ~Balance_try_from(xcm_fee) THEN Outcome(Err("InvalidFee"), st, NotCalled)
        ELSE IF burn_fees(b) # Ok THEN Outcome(burn_fees(b), st, NotCalled)
        ELSE IF ~t.ok THEN Outcome(RewardsErrorFrom(t.v), deducted, t)
        ELSE Outcome(Ok, claimed, t)

\* Pallet::claim, the body run on the storage st
claim(st, origin, deposit_address, value, message_id, b, t) ==
    IF origin[1] # "Signed" THEN Outcome(BadOrigin, st, NotCalled)
    ELSE process_claim(st, origin[2], deposit_address, value, message_id, b, t)

\* RewardLedger::deposit, run on the storage st
deposit(st, account_id, value) ==
    Outcome(Ok,
            deposit_event([st EXCEPT !.RewardsMapping[account_id] = saturating_add(@, value)],
                          RewardDeposited(account_id, value)),
            NotCalled)

\* whether claim, run on st with these arguments, gets as far as burn_fees, and
\* with the answer b of the asset transactor as far as send_xcm
BurnCalled(st, origin, value) ==
    claim(st, origin, NoAccount, value, "none", NotBurnt, NotCalled).result
        = Err("FundsUnavailable")
BurnOutcomesOf(st, origin, value) ==
    IF BurnCalled(st, origin, value) THEN AssetTransactorOutcomes ELSE {NotBurnt}
SendOutcomesOf(st, origin, value, b) ==
    IF claim(st, origin, NoAccount, value, "none", b,
             [ok |-> TRUE, v |-> "T"]).transport # NotCalled
    THEN TransportOutcomes ELSE {NotCalled}

NoRewardCall ==
    [call |-> "none", account_id |-> NoAccount, value |-> 0, burn |-> NotBurnt,
     transport |-> NotCalled, result |-> Ok]

\* the extrinsic claim, dispatched in a storage layer
Claim ==
    /\ Len(reward_events) < MaxRewardEvents
    /\ \E origin \in RewardOrigins, deposit_address \in Accounts, value \in Balances,
          message_id \in MessageIds :
        \E b \in BurnOutcomesOf(RewardStorage, origin, value) :
        \E t \in SendOutcomesOf(RewardStorage, origin, value, b) :
            LET res == claim(RewardStorage, origin, deposit_address, value, message_id, b, t)
                st == with_storage_layer(RewardStorage, res)
            IN  /\ RewardsMapping' = st.RewardsMapping
                /\ reward_events' = st.events
                /\ reward_call' = [call |-> "claim", account_id |-> origin[2],
                                   value |-> value, burn |-> b,
                                   transport |-> res.transport, result |-> res.result]
    /\ UNCHANGED <<inbound, outbound, exporter>>

\* a deposit made by the pallet that rewards a relayer, inside its own call
Deposit ==
    /\ Len(reward_events) < MaxRewardEvents
    /\ \E account_id \in Accounts, value \in Balances :
        LET res == deposit(RewardStorage, account_id, value)
        IN  /\ RewardsMapping' = res.st.RewardsMapping
            /\ reward_events' = res.st.events
            /\ reward_call' = [call |-> "deposit", account_id |-> account_id,
                               value |-> value, burn |-> NotBurnt,
                               transport |-> res.transport, result |-> res.result]
    /\ UNCHANGED <<inbound, outbound, exporter>>

\* RewardsMapping is a ValueQuery map: an account without an entry has balance 0
RewardsInit ==
    /\ RewardsMapping = [a \in Accounts |-> 0]
    /\ reward_events = <<>>
    /\ reward_call = NoRewardCall

-----------------------------------------------------------------------------
(* Specifications *)

Init == InboundInit /\ OutboundInit /\ ExporterInit /\ RewardsInit

\* the inbound queue under every sequence of calls
Next == Submit \/ SetOperatingMode

Spec == Init /\ [][Next]_vars

\* the converter on every program
ConvNext == Convert

ConvSpec == Init /\ [][ConvNext]_vars

\* the exporter on every program, with every argument, and the deliveries that follow
ExpNext == Build \/ Validate \/ Deliver

ExpSpec == Init /\ [][ExpNext]_vars

\* the rewards pallet under every sequence of deposits and claims
RewardNext == Deposit \/ Claim

RewardSpec == Init /\ [][RewardNext]_vars

-----------------------------------------------------------------------------
(* Inbound queue: vocabulary of the properties *)

\* the nonces whose program the transport accepted
Accepted == {sent[i].nonce : i \in DOMAIN sent}

\* the nonces carried by the MessageReceived events
Received(evs, n) ==
    {i \in DOMAIN evs : evs[i].event = "MessageReceived" /\ evs[i].nonce = n}

\* a message that passes proof verification, envelope decoding and the gateway check
PassesEnvelope(m) ==
    /\ m.proof = "valid"
    /\ m.event_log.wellformed
    /\ m.event_log.gateway = GatewayAddress

\* a message whose payload decodes to an XCM program
PassesPayload(m) == m.event_log.payload = "xcm"

LastSubmit == last.call = "submit"
LastNonce == last.message.event_log.nonce
LastFailedAtTransport == LastSubmit /\ last.result[1] = "Send"

StorageUnchanged ==
    /\ Nonce' = Nonce
    /\ OperatingMode' = OperatingMode
    /\ events' = events
    /\ sent' = sent

\* a dispatched submit: its result and the storage it commits
Dispatched(st, origin, message, t) ==
    LET res == submit(st, origin, message, t)
    IN  [result |-> res.result, st |-> with_storage_layer(st, res)]

-----------------------------------------------------------------------------
\* C1: a nonce is in the consumed set, with its flag true, iff the transport accepted
\* a program carried under it; a submit that failed at the transport leaves its nonce
\* unconsumed.
C1_ConsumedIffAccepted ==
    /\ \A n \in Nonces : n \in DOMAIN Nonce <=> n \in Accepted
    /\ \A n \in DOMAIN Nonce : Nonce[n] = TRUE
    /\ LastFailedAtTransport => LastNonce \notin DOMAIN Nonce

\* a submit failed at the transport while another nonce is consumed
C1_Witness ==
    /\ LastFailedAtTransport
    /\ DOMAIN Nonce # {}

\* C2: per nonce the transport accepts at most one program, at most one
\* MessageReceived is emitted, and a consumed nonce is not consumed again: a submit
\* carrying a consumed nonce forwards nothing.
C2_ExactlyOnce ==
    /\ [](\A n \in Nonces :
            /\ Cardinality({i \in DOMAIN sent : sent[i].nonce = n}) <= 1
            /\ Cardinality(Received(events, n)) <= 1)
    /\ [][\A n \in DOMAIN Nonce :
            (last'.call = "submit" /\ last'.message.event_log.nonce = n)
                => (last'.result # Ok /\ sent' = sent /\ events' = events /\ Nonce' = Nonce)]_vars

\* a consumed nonce was submitted again, with a message that would otherwise pass
C2_Witness ==
    /\ LastSubmit
    /\ last.origin = "Signed"
    /\ PassesEnvelope(last.message) /\ PassesPayload(last.message)
    /\ LastNonce \in Accepted
    /\ last.result # Ok

\* C3: after a submit with nonce n failed at the transport, a later submit with n
\* (n not forwarded in between) that passes the halt, proof, envelope, gateway and
\* payload checks reaches the transport, is not rejected with InvalidNonce, and
\* succeeds when the transport accepts.
C3_RetryAfterSendFailure ==
    [][(/\ last'.call = "submit"
        /\ last'.origin = "Signed"
        /\ OperatingMode # "Halted"
        /\ PassesEnvelope(last'.message) /\ PassesPayload(last'.message)
        /\ last'.message.event_log.nonce \in send_failed
        /\ last'.message.event_log.nonce \notin Accepted
       )
       => /\ last'.transport # NotCalled
          /\ last'.result # Err("InvalidNonce")
          /\ last'.transport.ok => last'.result = Ok]_vars

\* a nonce that failed at the transport was submitted again and forwarded
C3_Witness ==
    /\ LastSubmit
    /\ last.result = Ok
    /\ LastNonce \in send_failed

\* C4: a submit whose nonce is consumed, passing the halt, proof, envelope and
\* gateway checks, returns InvalidNonce, calls no transport and changes no storage.
C4_ReplayRejected ==
    [][(/\ last'.call = "submit"
        /\ last'.origin = "Signed"
        /\ OperatingMode # "Halted"
        /\ PassesEnvelope(last'.message)
        /\ last'.message.event_log.nonce \in DOMAIN Nonce
       )
       => /\ last'.result = Err("InvalidNonce")
          /\ last'.transport = NotCalled
          /\ StorageUnchanged]_vars

\* a replay was rejected with InvalidNonce
C4_Witness ==
    /\ LastSubmit
    /\ last.result = Err("InvalidNonce")
    /\ LastNonce \in DOMAIN Nonce

\* C5: a submit that returns an error leaves the consumed set, the operating mode,
\* the events and the transport as they were, and a later submit with another nonce
\* has the outcome it would have had without it (stated for the valid, signed submit
\* of every other nonce, accepted by the transport: the one whose outcome reads the
\* consumed set and the operating mode).
C5_ErrorChangesNothing ==
    [][(last'.call = "submit" /\ last'.result # Ok)
       => /\ StorageUnchanged
          /\ \A n \in Nonces \ {last'.message.event_log.nonce} :
                LET m == [event_log |-> [wellformed |-> TRUE, gateway |-> GatewayAddress,
                                         nonce |-> n, payload |-> "xcm"],
                          proof |-> "valid"]
                    t == [ok |-> TRUE, v |-> "T"]
                IN  Dispatched(Storage', "Signed", m, t) = Dispatched(Storage, "Signed", m, t)]_vars

\* a submit failed after the nonce flag was set, with events and nonces in storage
C5_Witness ==
    /\ LastFailedAtTransport
    /\ events # <<>>
    /\ Accepted # {}
    /\ LastNonce \notin Accepted

\* C6: a consumed nonce stays consumed, with its flag true, in every later state.
C6_ConsumedForever ==
    [][\A n \in DOMAIN Nonce : n \in DOMAIN Nonce' /\ Nonce'[n] = Nonce[n]]_vars

\* a nonce was consumed and the operating mode was set after it
C6_Witness ==
    /\ DOMAIN Nonce # {}
    /\ last.call = "set_operating_mode"
    /\ last.result = Ok
    /\ events[Len(events)].event = "OperatingModeChanged"
    /\ events[1].event = "MessageReceived"

\* C7: while halted, a signed submit returns Halted whatever the message, calls no
\* transport and changes no storage; the operating mode changes only in a
\* set_operating_mode by root.
C7_HaltGate ==
    /\ [][(last'.call = "submit" /\ last'.origin = "Signed" /\ OperatingMode = "Halted"
          )
          => /\ last'.result = Err("Halted")
             /\ last'.transport = NotCalled
             /\ StorageUnchanged]_vars
    /\ [][OperatingMode' # OperatingMode
          => /\ last'.call = "set_operating_mode"
             /\ last'.origin = "Root"
             /\ OperatingMode' = last'.mode]_vars

\* halted, and a signed submit with an invalid proof was answered Halted
C7_Witness ==
    /\ OperatingMode = "Halted"
    /\ LastSubmit
    /\ last.origin = "Signed"
    /\ last.message.proof # "valid"
    /\ last.result = Err("Halted")

\* C8: a submit emits MessageReceived exactly when it returns Ok, that is exactly
\* when every check passed and the transport accepted; the event carries the
\* envelope's nonce and the transport's message id, and the nonce is then consumed.
C8_EventIffOk ==
    [][(last'.call = "submit")
       => LET m == last'.message
              n == m.event_log.nonce
          IN  /\ last'.result = Ok
                    <=> /\ last'.origin = "Signed"
                        /\ OperatingMode # "Halted"
                        /\ PassesEnvelope(m) /\ PassesPayload(m)
                        /\ n \notin DOMAIN Nonce
                        /\ last'.transport.ok
              /\ last'.result = Ok
                    => /\ events' = Append(events, MessageReceived(n, last'.transport.v))
                       /\ n \in DOMAIN Nonce' /\ Nonce'[n] = TRUE
              /\ last'.result # Ok => events' = events]_vars

\* a submit returned Ok and its event is the last one deposited
C8_Witness ==
    /\ LastSubmit
    /\ last.result = Ok
    /\ events # <<>>
    /\ events[Len(events)] = MessageReceived(LastNonce, "U")

\* C9 as stated: nonces are consumed in strictly increasing order.
C9_StrictlyIncreasing ==
    \A i, j \in DOMAIN sent : i < j => sent[i].nonce < sent[j].nonce

\* C9, amended: replay protection is by membership in the consumed set, not by order:
\* a submit is accepted only if its nonce is not consumed, and an unconsumed nonce
\* below a consumed one is accepted like any other.
C9_AcceptedIffUnconsumed ==
    [][(/\ last'.call = "submit"
        /\ last'.origin = "Signed"
        /\ OperatingMode # "Halted"
        /\ PassesEnvelope(last'.message) /\ PassesPayload(last'.message)
        /\ last'.transport # NotCalled => last'.transport.ok
       )
       => (last'.result = Ok <=> last'.message.event_log.nonce \notin DOMAIN Nonce)]_vars

\* a nonce was accepted after a greater one
C9_Witness ==
    \E i, j \in DOMAIN sent : i < j /\ sent[i].nonce > sent[j].nonce

-----------------------------------------------------------------------------
-----------------------------------------------------------------------------
(* Outbound: vocabulary of the properties *)

\* the kinds of the instructions of a program, in order
Kinds(prog) == [i \in DOMAIN prog |-> prog[i].kind]

\* zero or one instruction of a kind
Optional(kind) == {<<>>, <<kind>>}

\* The two grammars: the opening instruction, optional ClearOrigin, BuyExecution, the
\* optional ExpectAsset of the path that has one (the path opening with
\* WithdrawAsset), DepositAsset, SetTopic, and nothing more.
Grammar ==
    {<<"WithdrawAsset">> \o co \o <<"BuyExecution">> \o ea \o <<"DepositAsset", "SetTopic">> :
        co \in Optional("ClearOrigin"), ea \in Optional("ExpectAsset")}
    \cup {<<"ReserveAssetDeposited">> \o co \o <<"BuyExecution", "DepositAsset", "SetTopic">> :
        co \in Optional("ClearOrigin")}

\* C10: convert returns a message only for a program that is exactly one of the two
\* grammars, every instruction of it matched; every other program is rejected with
\* an XcmConverterError and no message.
C10_ExactGrammar ==
    /\ out.ok => /\ Kinds(xcm) \in Grammar
                 /\ out.consumed = Len(xcm)
                 /\ out.err = "none"
    /\ Kinds(xcm) \notin Grammar
            => /\ ~out.ok
               /\ out.err \in XcmConverterError
               /\ out.message = NoMessageBuilt

\* a program of the longest grammar was converted
C10_Witness ==
    /\ out.ok
    /\ Kinds(xcm) = <<"WithdrawAsset", "ClearOrigin", "BuyExecution", "ExpectAsset",
                      "DepositAsset", "SetTopic">>


-----------------------------------------------------------------------------
\* the instructions a program can be continued with after its grammar is complete
Tails ==
    {<<i>> : i \in Instructions}
    \cup {<<i, j>> : i, j \in {ClearOrigin, ExpectAsset, RefundSurplus, SetTopic("T"),
                               WithdrawAsset(<<>>)}}

\* C11: on both paths, a program whose grammar is complete through SetTopic and
\* that holds at least one more instruction is rejected with
\* EndOfXcmMessageExpected and no message; a successful convert has consumed every
\* instruction of the program.
C11_ConsumeExactly ==
    /\ [](out.ok => /\ out.consumed = Len(xcm)
                    /\ \A tail \in Tails :
                          /\ convert(xcm \o tail).err = "EndOfXcmMessageExpected"
                          /\ convert(xcm \o tail).message = NoMessageBuilt)
    /\ [][out.ok => /\ out'.err = "EndOfXcmMessageExpected"
                    /\ out'.message = NoMessageBuilt
                    /\ ~out'.ok]_vars

\* a complete program of the native-token path was continued and rejected
C11_Witness ==
    /\ out.err = "EndOfXcmMessageExpected"
    /\ xcm[1].kind = "ReserveAssetDeposited"
    /\ Kinds(SubSeq(xcm, 1, Len(xcm) - 1)) \in Grammar


-----------------------------------------------------------------------------
\* a program that opens with one of the two opening instructions
Opens(prog) ==
    /\ Len(prog) >= 1
    /\ prog[1].kind \in {"ReserveAssetDeposited", "WithdrawAsset"}

\* the two grammars up to and including DepositAsset
GrammarThroughDeposit == {SubSeq(g, 1, Len(g) - 1) : g \in Grammar}

\* the positions at which a program has followed a grammar through DepositAsset
DepositAt(prog) ==
    {k \in DOMAIN prog : Kinds(SubSeq(prog, 1, k)) \in GrammarThroughDeposit}

\* a beneficiary that is an Ethereum account: (0, [AccountKey20]) of no network or of Ethereum
EthereumBeneficiary(location) ==
    /\ location.parents = 0
    /\ Len(location.interior) = 1
    /\ location.interior[1].junction = "AccountKey20"
    /\ location.interior[1].network \in {NoNetwork, ethereum_network}

\* a program that follows a grammar through DepositAsset, with a fungible fee and an
\* Ethereum beneficiary
ValidThroughDeposit(prog) ==
    \E k \in DepositAt(prog) :
        /\ \A i \in 1..k : prog[i].kind = "BuyExecution" => prog[i].fees.fun.fungible
        /\ EthereumBeneficiary(prog[k].beneficiary)

\* the DepositAsset filter of such a program matches every asset of the opening instruction
FilterMatchesAll(prog) ==
    \E k \in DepositAt(prog) :
        \A i \in DOMAIN prog[1].assets : matches(prog[k].assets, prog[1].assets[i])

\* validate, called with an eligible network, destination and source, returns a ticket
\* for the program under some answer of the Queue
TicketFor(prog) ==
    \E q \in QueueOutcomes :
        validate(ethereum_network, Some(AssetHub), Some(Here), Some(prog), q).ok

\* C12 as stated, on the programs that follow a grammar through DepositAsset: an
\* opening instruction with 0 assets is always rejected with NoReserveAssets, one
\* with 2 or more always with TooManyAssets.
C12_AlwaysNamedError ==
    (Opens(xcm) /\ DepositAt(xcm) # {}) =>
        /\ Len(xcm[1].assets) = 0 => out.err = "NoReserveAssets"
        /\ Len(xcm[1].assets) >= 2 => out.err = "TooManyAssets"

\* C12, amended: a program whose opening instruction carries 0 or 2 or more assets is
\* always rejected, with no message and no ticket; the error is NoReserveAssets (0
\* assets) when the program is valid through DepositAsset, and TooManyAssets (2 or
\* more) when moreover the filter matches every asset; a program that fails an earlier
\* check is rejected with that check's error. Every message produced comes from an
\* opening instruction with exactly one asset and holds exactly one command.
C12_SingleAsset ==
    /\ (Opens(xcm) /\ Len(xcm[1].assets) # 1)
            => /\ ~out.ok
               /\ out.message = NoMessageBuilt
               /\ ~TicketFor(xcm)
    /\ (Opens(xcm) /\ ValidThroughDeposit(xcm))
            => /\ Len(xcm[1].assets) = 0 => out.err = "NoReserveAssets"
               /\ (Len(xcm[1].assets) >= 2 /\ FilterMatchesAll(xcm))
                        => out.err = "TooManyAssets"
               /\ (Len(xcm[1].assets) >= 2 /\ ~FilterMatchesAll(xcm))
                        => out.err = "FilterDoesNotConsumeAllAssets"
               /\ Len(xcm[1].assets) # 1
                        => \A t \in Topics :
                              /\ convert(Append(xcm, SetTopic(t))).err = out.err
                              /\ ~TicketFor(Append(xcm, SetTopic(t)))
    /\ out.ok => /\ Len(xcm[1].assets) = 1
                 /\ Len(out.message.commands) = 1

\* two reserved assets, all matched by the filter, were rejected with TooManyAssets
C12_Witness ==
    /\ Opens(xcm)
    /\ Len(xcm[1].assets) = 2
    /\ ValidThroughDeposit(xcm)
    /\ out.err = "TooManyAssets"


-----------------------------------------------------------------------------
\* a program and its completions by a SetTopic instruction
Completed(prog) == {prog} \cup {Append(prog, SetTopic(t)) : t \in Topics}

\* a program whose opening instruction carries a single fungible asset of amount 0
ZeroAmount(prog) ==
    /\ Opens(prog)
    /\ Len(prog[1].assets) = 1
    /\ prog[1].assets[1].fun.fungible
    /\ prog[1].assets[1].fun.amount = 0

\* the rest of the grammar is valid: the program is valid through DepositAsset, the
\* filter matches the asset, and on the path opening with WithdrawAsset the asset id
\* is an Ethereum account
RestValid(prog) ==
    /\ ValidThroughDeposit(prog)
    /\ FilterMatchesAll(prog)
    /\ prog[1].kind = "WithdrawAsset" => EthereumBeneficiary(prog[1].assets[1].id)

\* C13: on both paths a program whose single reserved asset has fungible amount 0 is
\* always rejected, with ZeroAssetTransfer when the rest of the grammar is valid
\* (with or without the closing SetTopic); every command produced has amount > 0.
C13_ZeroAmountRejected ==
    /\ ZeroAmount(xcm) => /\ ~out.ok
                          /\ out.message = NoMessageBuilt
    /\ (ZeroAmount(xcm) /\ RestValid(xcm))
            => \A p \in Completed(xcm) : convert(p).err = "ZeroAssetTransfer"
    /\ out.ok => \A i \in DOMAIN out.message.commands : out.message.commands[i].amount > 0

\* on the native-token path an amount of 0 was rejected with ZeroAssetTransfer
C13_Witness ==
    /\ ZeroAmount(xcm)
    /\ RestValid(xcm)
    /\ xcm[1].kind = "ReserveAssetDeposited"
    /\ out.err = "ZeroAssetTransfer"


-----------------------------------------------------------------------------
(* Exporter: vocabulary of the properties *)

\* a universal source that is a single Parachain junction under the expected global consensus
EligibleSource(universal_source) ==
    \E para \in {"1000", "9999"} :
        universal_source = Some(<<GlobalConsensus("Polkadot"), Parachain(para)>>)

\* validate was called with the eligible network, destination Here and an eligible
\* source, and with the program built
EligibleCall ==
    /\ validated.called
    /\ validated.network = ethereum_network
    /\ validated.args.destination = Some(Here)
    /\ EligibleSource(validated.args.universal_source)
    /\ validated.args.message = Some(xcm)

HasExpectAsset(prog) == \E i \in DOMAIN prog : prog[i].kind = "ExpectAsset"

\* C14: for eligible network, destination and source, validate returns NotApplicable
\* for every program that contains an ExpectAsset instruction at any position, before
\* the grammar matcher is invoked.
C14_ExpectAssetNotApplicable ==
    (EligibleCall /\ HasExpectAsset(xcm))
        => /\ validated.result.err = "NotApplicable"
           /\ ~validated.result.converted

\* the program of scenario C: ReserveAssetDeposited(one fungible asset, amount > 0, an id
\* that round-trips), BuyExecution(fungible fee), DepositAsset(matching filter,
\* AccountKey20 beneficiary), SetTopic(U)
ScenarioC(prog) ==
    /\ Kinds(prog) = <<"ReserveAssetDeposited", "BuyExecution", "DepositAsset", "SetTopic">>
    /\ Len(prog[1].assets) = 1
    /\ prog[1].assets[1].fun.fungible
    /\ prog[1].assets[1].fun.amount > 0
    /\ prog[1].assets[1].id = DOT
    /\ prog[2].fees.fun.fungible
    /\ matches(prog[3].assets, prog[1].assets[1])
    /\ EthereumBeneficiary(prog[3].beneficiary)
    /\ prog[4].id = "U"

\* C15: for the program of scenario C, with eligible network, destination and source
\* and a Queue that does not refuse, validate succeeds and returns exactly one ticket, for a
\* message whose single command is MintForeignToken.
C15_NativeTokenTicket ==
    (/\ EligibleCall
     /\ validated.args.universal_source = Some(AssetHub)
     /\ ~(validated.result.queue_called /\ ~validated.q.ok)
     /\ ScenarioC(xcm))
        => /\ validated.result.ok
           /\ tickets = {validated.result.blob}
           /\ LET message == Ticket_decode(validated.result.blob[1]).ticket.message
              IN  /\ Len(message.commands) = 1
                  /\ message.commands[1].command = "MintForeignToken"


-----------------------------------------------------------------------------
\* C16 as stated: validate returns NotApplicable, without invoking the matcher or the
\* Queue, whenever the network is not the configured one, the destination is not
\* Here, or the source is not a single Parachain junction under the expected global
\* consensus, whatever the program.
C16_IneligibleNotApplicable ==
    (/\ validated.called
     /\ \/ validated.network # ethereum_network
        \/ validated.args.destination # Some(Here)
        \/ ~EligibleSource(validated.args.universal_source))
        => /\ validated.result.err = "NotApplicable"
           /\ ~validated.result.converted
           /\ ~validated.result.queue_called

\* C16, amended: validate returns NotApplicable when the network is not the
\* configured one; else when the destination is present and not Here; else, the
\* destination being Here, when the source is present and not a single Parachain
\* junction under the expected global consensus. With the configured network, an
\* absent destination and, the destination being Here, an absent source are answered
\* MissingArgument. In all these cases, whatever the program, validate returns no
\* ticket and invokes neither the matcher nor the Queue.
C16_EligibilityChecks ==
    validated.called =>
        LET network == validated.network
            destination == validated.args.destination
            universal_source == validated.args.universal_source
            result == validated.result
        IN  /\ network # ethereum_network => result.err = "NotApplicable"
            /\ (network = ethereum_network /\ destination \notin {None, Some(Here)})
                    => result.err = "NotApplicable"
            /\ (/\ network = ethereum_network
                /\ destination = Some(Here)
                /\ universal_source # None
                /\ ~EligibleSource(universal_source))
                    => result.err = "NotApplicable"
            /\ (network = ethereum_network /\ destination = None)
                    => result.err = "MissingArgument"
            /\ (network = ethereum_network /\ destination = Some(Here) /\ universal_source = None)
                    => result.err = "MissingArgument"
            /\ (\/ network # ethereum_network
                \/ destination # Some(Here)
                \/ ~EligibleSource(universal_source))
                    => /\ ~result.ok
                       /\ result.blob = NoBlob
                       /\ ~result.converted
                       /\ ~result.queue_called

\* a program that converts was handed to validate from a source of another global
\* consensus, and the answer was NotApplicable
C16_Witness ==
    /\ validated.called
    /\ validated.network = ethereum_network
    /\ validated.args.destination = Some(Here)
    /\ validated.args.universal_source = Some(<<GlobalConsensus("Kusama"), Parachain("1000")>>)
    /\ validated.args.message = Some(xcm)
    /\ out.ok
    /\ HasExpectAsset(xcm)
    /\ validated.result.err = "NotApplicable"


-----------------------------------------------------------------------------
\* C17: a ticket returned by validate is redeemed by deliver exactly once: a second
\* deliver of the same ticket is rejected with NotApplicable and hands nothing to the
\* Queue, so that a ticket the Queue has accepted is never handed to it again; a
\* deliver of an undecodable ticket is rejected with NotApplicable and hands nothing
\* to the Queue.
C17_RedeemedOnce ==
    /\ \A i, j \in DOMAIN queue :
            (i < j /\ queue[i].accepted) => queue[j].ticket # queue[i].ticket
    /\ (delivered.called /\ delivered.blob[1].bytes # "ticket")
            => /\ delivered.result.v = "NotApplicable"
               /\ delivered.result.handed = <<>>


-----------------------------------------------------------------------------
\* the instruction of a kind in a program that holds one
TheInstruction(prog, kind) == prog[CHOOSE i \in DOMAIN prog : prog[i].kind = kind]

\* C18: every message produced by convert holds exactly one command, its id is the id
\* of the program's SetTopic, its fee is the fungible amount of the BuyExecution fee
\* asset, its origin hash is populated from the matched program (it is not the zero
\* hash), and the command's recipient and amount are the DepositAsset beneficiary's
\* 20-byte key and the reserved asset's amount.
C18_MessageFromMatchedFields ==
    out.ok =>
        /\ Len(out.message.commands) = 1
        /\ out.message.id = TheInstruction(xcm, "SetTopic").id
        /\ out.message.fee = TheInstruction(xcm, "BuyExecution").fees.fun.amount
        /\ out.message.origin # "H256::zero"
        /\ out.message.commands[1].recipient
                = TheInstruction(xcm, "DepositAsset").beneficiary.interior[1].key
        /\ out.message.commands[1].amount = xcm[1].assets[1].fun.amount


-----------------------------------------------------------------------------
\* the error of the earliest step a signed submission fails, in the order halt gate,
\* proof verification, envelope decode, gateway check, nonce check, payload and
\* program decode; NoFailure when it passes them all
NoFailure == <<"none">>
EarliestFailure(mode, consumed, m) ==
    IF mode = "Halted" THEN Err("Halted")
    ELSE IF m.proof # "valid" THEN Verification(m.proof)
    ELSE IF ~m.event_log.wellformed THEN Err("InvalidEnvelope")
    ELSE IF m.event_log.gateway # GatewayAddress THEN Err("InvalidGateway")
    ELSE IF m.event_log.nonce \in consumed THEN Err("InvalidNonce")
    ELSE IF m.event_log.payload # "xcm" THEN Err("InvalidPayload")
    ELSE NoFailure

\* C19: a signed submit returns the error of the earliest step it fails, in the order
\* halt gate, proof, envelope, gateway, nonce, payload and program decode, and then
\* calls no transport and writes nothing; the transport is called only by a submit
\* that passed all of them, after the nonce was inserted, and what it answers decides
\* the result.
C19_EarliestFailure ==
    [][(last'.call = "submit" /\ last'.origin = "Signed")
       => LET failure == EarliestFailure(OperatingMode, DOMAIN Nonce, last'.message)
          IN  /\ failure # NoFailure
                    => /\ last'.result = failure
                       /\ last'.transport = NotCalled
                       /\ StorageUnchanged
              /\ last'.transport # NotCalled => failure = NoFailure
              /\ failure = NoFailure
                    => /\ last'.transport # NotCalled
                       /\ last'.result \in {Ok} \cup {Send(e) : e \in SendError}
                       /\ last'.result = Ok <=> last'.transport.ok]_vars

\* a submit with a wrong gateway and a consumed nonce was answered InvalidGateway
C19_Witness ==
    /\ LastSubmit
    /\ last.origin = "Signed"
    /\ last.message.proof = "valid"
    /\ last.message.event_log.wellformed
    /\ last.message.event_log.gateway # GatewayAddress
    /\ LastNonce \in DOMAIN Nonce
    /\ last.message.event_log.payload # "xcm"
    /\ last.result = Err("InvalidGateway")


-----------------------------------------------------------------------------
\* the errors of the two paths that name the opening instruction they expect
PathErrors == {"WithdrawAssetExpected", "ReserveAssetDepositedExpected"}

\* C20: convert selects the grammar from the first instruction alone: an empty
\* program returns UnexpectedEndOfXcm; a first instruction other than
\* ReserveAssetDeposited and WithdrawAsset returns UnexpectedInstruction, whatever
\* follows it; ReserveAssetDeposited runs the native-token path and can only yield
\* MintForeignToken, WithdrawAsset runs the other path and can only yield
\* UnlockNativeToken, and neither returns UnexpectedInstruction or the error of a
\* path run on the wrong opening instruction.
C20_PathFromFirstInstruction ==
    /\ Len(xcm) = 0 => out.err = "UnexpectedEndOfXcm"
    /\ (Len(xcm) > 0 /\ ~Opens(xcm))
            => /\ out.err = "UnexpectedInstruction"
               /\ \A tail \in Tails : convert(xcm \o tail).err = "UnexpectedInstruction"
    /\ Opens(xcm) => out.err \notin PathErrors \cup {"UnexpectedInstruction"}
    /\ (Opens(xcm) /\ out.ok)
            => /\ Len(out.message.commands) = 1
               /\ xcm[1].kind = "ReserveAssetDeposited"
                    => out.message.commands[1].command = "MintForeignToken"
               /\ xcm[1].kind = "WithdrawAsset"
                    => out.message.commands[1].command = "UnlockNativeToken"
    /\ out.ok => Opens(xcm)

\* a program opening with ReserveAssetDeposited yielded MintForeignToken
C20_Witness ==
    /\ out.ok
    /\ xcm[1].kind = "ReserveAssetDeposited"
    /\ out.message.commands[1].command = "MintForeignToken"
    /\ Len(xcm) = 4



-----------------------------------------------------------------------------
\* the positions at which a program has an ExpectAsset directly after the
\* BuyExecution of its grammar: opening instruction, optional ClearOrigin,
\* BuyExecution, ExpectAsset
ExpectAssetAt(prog) ==
    {k \in DOMAIN prog :
        /\ Opens(prog)
        /\ Kinds(SubSeq(prog, 2, k)) \in
              {co \o <<"BuyExecution", "ExpectAsset">> : co \in Optional("ClearOrigin")}}

\* a program without its k-th instruction
Without(prog, k) == SubSeq(prog, 1, k - 1) \o SubSeq(prog, k + 1, Len(prog))

\* two results of convert that agree on the verdict, the error and the message
SameVerdict(r1, r2) ==
    /\ r1.ok = r2.ok
    /\ r1.err = r2.err
    /\ r1.message = r2.message

\* the DepositAsset instructions a program can be continued with
Deposits == {i \in Instructions : i.kind = "DepositAsset"}

\* C21 as stated: an ExpectAsset directly after BuyExecution is consumed without
\* error on the path opening with ReserveAssetDeposited, where the program is
\* converted as the program without it is, and on the path opening with
\* WithdrawAsset it makes the matcher reject the program.
C21_NativePathOnly ==
    \A k \in ExpectAssetAt(xcm) :
        /\ xcm[1].kind = "ReserveAssetDeposited"
                => SameVerdict(out, convert(Without(xcm, k)))
        /\ xcm[1].kind = "WithdrawAsset" => ~out.ok

\* C21: an ExpectAsset directly after BuyExecution is consumed without error on
\* the path opening with WithdrawAsset only: there the program gets the verdict,
\* the error and the message of the program without it, and a converted program
\* has consumed it; one ExpectAsset is consumed, a second one directly after it
\* is rejected with DepositAssetExpected. On the path opening with
\* ReserveAssetDeposited the matcher
\* rejects the program at that instruction with DepositAssetExpected, whatever
\* DepositAsset and SetTopic follow it.
C21_ExpectAssetOnWithdrawPath ==
    \A k \in ExpectAssetAt(xcm) :
        /\ xcm[1].kind = "WithdrawAsset"
                => /\ ~(Len(xcm) > k /\ xcm[k + 1].kind = "ExpectAsset")
                        => SameVerdict(out, convert(Without(xcm, k)))
                   /\ (Len(xcm) > k /\ xcm[k + 1].kind = "ExpectAsset")
                        => ~out.ok /\ out.err = "DepositAssetExpected"
                   /\ out.ok => out.consumed = Len(xcm)
        /\ xcm[1].kind = "ReserveAssetDeposited"
                => /\ ~out.ok
                   /\ out.message = NoMessageBuilt
                   /\ xcm[k - 1].fees.fun.fungible => out.err = "DepositAssetExpected"
                   /\ \A d \in Deposits, t \in Topics :
                        LET completed == SubSeq(xcm, 1, k) \o <<d, SetTopic(t)>>
                        IN  /\ ~convert(completed).ok
                            /\ convert(completed).err = out.err

\* a program of the path opening with WithdrawAsset was converted with an
\* ExpectAsset between its BuyExecution and its DepositAsset
C21_Witness ==
    /\ out.ok
    /\ Kinds(xcm) = <<"WithdrawAsset", "BuyExecution", "ExpectAsset", "DepositAsset",
                      "SetTopic">>
    /\ convert(Without(xcm, 3)).ok
    /\ out.message.commands[1].command = "UnlockNativeToken"



-----------------------------------------------------------------------------
\* the kind of the pallet's SendError that carries the name of a transport error
\* kind: its own name, but NotRoutable for Unroutable
SameKind(e) == IF e = "Unroutable" THEN "NotRoutable" ELSE e

\* C22: the mapping from the transport's send errors to Send(kind) is total and
\* one-to-one on kinds: each of NotApplicable, Unroutable (as NotRoutable),
\* Transport, DestinationUnsupported, ExceedsMaxMessageSize, MissingArgument and
\* Fees maps to the Send variant of its own kind, two kinds never to the same
\* variant, and every variant is the image of a kind; a submit whose transport
\* send fails returns Send of the kind the transport failed with, never another
\* error, and only such a submit returns a Send error.
C22_SendErrorMapping ==
    /\ [](/\ \A e \in XcmpSendError : SendErrorFrom(e) = Send(SameKind(e))
          /\ \A e1, e2 \in XcmpSendError : e1 # e2 => SendErrorFrom(e1) # SendErrorFrom(e2)
          /\ {SendErrorFrom(e) : e \in XcmpSendError} = {Send(k) : k \in SendError})
    /\ [][last'.call = "submit"
            => /\ (last'.transport # NotCalled /\ ~last'.transport.ok)
                    => /\ last'.transport.v \in XcmpSendError
                       /\ last'.result = Send(SameKind(last'.transport.v))
               /\ last'.result[1] = "Send"
                    => /\ last'.transport # NotCalled
                       /\ ~last'.transport.ok]_vars

\* a submit whose transport send failed with Unroutable returned Send(NotRoutable)
C22_Witness ==
    /\ LastSubmit
    /\ last.transport = [ok |-> FALSE, v |-> "Unroutable"]
    /\ last.result = Send("NotRoutable")



-----------------------------------------------------------------------------
\* C23: validate leaves its universal_source, destination and message arguments
\* exactly as it received them on every return path, a ticket and every error
\* alike: after the call they hold the values they were passed with.
C23_ArgumentsUntouched ==
    validated.called
        => /\ validated.result.args.universal_source = validated.args.universal_source
           /\ validated.result.args.destination = validated.args.destination
           /\ validated.result.args.message = validated.args.message

\* validate returned a ticket and its three arguments, all present, are as passed
C23_Witness ==
    /\ validated.called
    /\ validated.result.ok
    /\ validated.args.destination = Some(Here)
    /\ validated.args.universal_source = Some(AssetHub)
    /\ validated.args.message # None
    /\ validated.result.args = validated.args



-----------------------------------------------------------------------------
\* the positions of the ExpectAsset instructions of a program
ExpectAssets(prog) == {i \in DOMAIN prog : prog[i].kind = "ExpectAsset"}

\* the program validate was called with, the empty program when it was given none
ValidatedProgram ==
    IF validated.args.message = None THEN <<>> ELSE unwrap(validated.args.message)

-----------------------------------------------------------------------------
(* Rewards: vocabulary of the properties *)

\* The ledger of an account by the events deposited: every RewardDeposited adds its
\* value, saturating at the largest balance, every RewardClaimed takes its value off.
RECURSIVE Ledger(_, _)
Ledger(evs, a) ==
    IF Len(evs) = 0 THEN 0
    ELSE LET e == evs[Len(evs)]
             before == Ledger(SubSeq(evs, 1, Len(evs) - 1), a)
         IN  IF e.account_id # a THEN before
             ELSE IF e.event = "RewardDeposited"
                 THEN (IF before + e.value > MaxBalance THEN MaxBalance ELSE before + e.value)
             ELSE before - e.value

\* C25: after any sequence of deposits and claims the claimable balance of every
\* account is its deposits, added saturating, less the values of its successful
\* claims, and is never negative. A claim of more than the balance returns
\* InsufficientFunds; a claim that returns an error (insufficient funds, a failed
\* fee burn, a failed transport send, a bad origin) leaves every balance as it was
\* and deposits no event; a claim that returns Ok lowers the balance of the
\* claimant by exactly its value, leaves every other balance as it was and
\* deposits one RewardClaimed of that value; a deposit adds its value, saturating,
\* to the balance of its account alone.
C25_LedgerBalance ==
    /\ [](\A a \in Accounts : /\ RewardsMapping[a] = Ledger(reward_events, a)
                              /\ RewardsMapping[a] \in Balances)
    /\ [][reward_call'.call = "claim"
            => LET a == reward_call'.account_id
                   value == reward_call'.value
               IN  /\ (a \in Accounts /\ value > RewardsMapping[a])
                        => reward_call'.result = Err("InsufficientFunds")
                   /\ (a \in Accounts /\ value <= RewardsMapping[a]
                       /\ reward_call'.burn = [can_check_out |-> TRUE, withdraw_asset |-> TRUE]
                       /\ reward_call'.transport.ok)
                        => reward_call'.result = Ok
                   /\ reward_call'.result # Ok
                        => /\ RewardsMapping' = RewardsMapping
                           /\ reward_events' = reward_events
                   /\ reward_call'.result = Ok
                        => /\ a \in Accounts
                           /\ RewardsMapping'[a] = RewardsMapping[a] - value
                           /\ \A o \in Accounts \ {a} : RewardsMapping'[o] = RewardsMapping[o]
                           /\ Len(reward_events') = Len(reward_events) + 1
                           /\ LET e == reward_events'[Len(reward_events')]
                              IN  /\ e.event = "RewardClaimed"
                                  /\ e.account_id = a
                                  /\ e.value = value]_vars
    /\ [][reward_call'.call = "deposit"
            => LET a == reward_call'.account_id
                   value == reward_call'.value
               IN  /\ RewardsMapping'[a] =
                        IF RewardsMapping[a] + value > MaxBalance THEN MaxBalance
                        ELSE RewardsMapping[a] + value
                   /\ \A o \in Accounts \ {a} : RewardsMapping'[o] = RewardsMapping[o]]_vars

\* after a deposit to the relayer, a claim of the relayer within its balance failed
\* at the transport send: the balance is what was deposited and no event was added
C25_Witness ==
    /\ reward_call.call = "claim"
    /\ reward_call.account_id = "relayer"
    /\ reward_call.value > 0
    /\ reward_call.result[1] = "Send"
    /\ RewardsMapping["relayer"] = MaxBalance
    /\ reward_events = <<RewardDeposited("relayer", MaxBalance)>>

=============================================================================
